---- MODULE Spec2Model ----
(***************************************************************************)
(* Model of backend/main.py of codebase_companion: the /analyze and /chat  *)
(* request handlers over the shared on-disk workspace (./temp_repo and     *)
(* ./chroma_db), the document loader (os.walk with pruning and extension   *)
(* filter) and the text splitter the handler calls.                        *)
(***************************************************************************)
EXTENDS Integers, Sequences, FiniteSets, TLC

VARIABLES
    disk,      \* the two workspace directories: name -> [exists, ents]
    pc,        \* position of every request handler
    run,       \* analyzer -> number of the analyze request it serves
    url,       \* analyzer -> repo_url.url of the request it serves
    texts,     \* analyzer -> the local `texts` (chunks handed to Chroma)
    resp,      \* handler -> the response it last returned
    nextRun,   \* number the next analyze request gets
    hist,      \* history: last responder, successful runs, runs that wrote
    tear,      \* analyzer -> history of its teardown
    chatPre,   \* chatter -> no analyze had succeeded when the chat was issued
    tree,      \* loader: the directory tree under repo_path
    stack,     \* loader: os.walk's stack of directories still to visit
    all_docs,  \* loader: the local `all_docs`
    visited,   \* loader: directories os.walk has yielded
    opened,    \* loader: files handed to TextLoader
    text,      \* splitter: the document content
    chunk_size,    \* splitter: chunk_size
    chunk_overlap, \* splitter: chunk_overlap
    frames,    \* splitter: call stack of _split_text
    merge,     \* splitter: the running _merge_splits call, or its absence
    final_chunks   \* splitter: chunks produced so far

srvVars == <<disk, pc, run, url, texts, resp, nextRun, hist, tear, chatPre>>
loadVars == <<tree, stack, all_docs, visited, opened>>
chunkVars == <<text, chunk_size, chunk_overlap, frames, merge, final_chunks>>
vars == <<srvVars, loadVars, chunkVars>>

----------------------------------------------------------------------------
(* Bounds of the model *)

MaxRuns == 3
MaxChunks == 2

(* Program constants *)

K == 7

repo_path == "temp_repo"
db_path == "chroma_db"

Analyzers == {"a1", "a2"}
Chatters == {"c1"}
Procs == Analyzers \cup Chatters

\* A repository is identified by the number of chunks its eligible files yield.
Repos == 0..MaxChunks

Min(a, b) == IF a < b THEN a ELSE b

NoDir == [exists |-> FALSE, ents |-> <<>>]
NoResp == [status |-> 0, stage |-> "none", saw |-> <<>>]

----------------------------------------------------------------------------
(* Workspace teardown *)

\* remove_readonly(func, path, excinfo): e is the entry at path, retryFails
\* whether func(path) fails again after the chmod.
remove_readonly_always_raise(e, retryFails) ==
    [ent |-> e, chmod |-> FALSE, removed |-> FALSE, raised |-> TRUE]

remove_readonly(e, retryFails) ==
    IF e.ro
    THEN [ent |-> [e EXCEPT !.ro = FALSE], chmod |-> TRUE,
          removed |-> ~retryFails, raised |-> retryFails]
    ELSE [ent |-> e, chmod |-> FALSE, removed |-> FALSE, raised |-> TRUE]

\* One deletion of shutil.rmtree(path, onerror=remove_readonly) on directory d:
\* the first entry, or the directory itself once it is empty.  fails: the
\* deletion raises; retryFails: the handler's second attempt raises too.
rmtree_step(d, fails, retryFails) ==
    IF ~d.exists
    THEN [dir |-> d, raised |-> TRUE, other |-> TRUE, done |-> FALSE]
    ELSE IF d.ents = <<>>
    THEN IF fails
         THEN [dir |-> d, raised |-> TRUE, other |-> TRUE, done |-> FALSE]
         ELSE [dir |-> NoDir, raised |-> FALSE, other |-> FALSE, done |-> TRUE]
    ELSE IF ~fails
    THEN [dir |-> [d EXCEPT !.ents = Tail(@)], raised |-> FALSE,
          other |-> FALSE, done |-> FALSE]
    ELSE LET h == remove_readonly(Head(d.ents), retryFails) IN
         [dir |-> IF h.removed
                  THEN [d EXCEPT !.ents = Tail(@)]
                  ELSE [d EXCEPT !.ents = <<h.ent>> \o Tail(@)],
          raised |-> h.raised,
          other |-> h.raised /\ ~h.ent.ro,
          done |-> FALSE]

----------------------------------------------------------------------------
(* The request handlers *)

AllIdle == \A q \in Procs : pc[q] = "idle"

\* The handler returns (or raises HTTPException): record the response.
Respond(p, status, stage, saw) ==
    /\ pc' = [pc EXCEPT ![p] = "idle"]
    /\ resp' = [resp EXCEPT ![p] = [status |-> status, stage |-> stage, saw |-> saw]]
    /\ hist' = [hist EXCEPT !.last = p,
                            !.okRuns = IF p \in Analyzers /\ status = 200
                                       THEN @ \cup {run[p]} ELSE @]

\* POST /analyze arrives.
AnalyzeRequest(p, u) ==
    /\ pc[p] = "idle"
    /\ nextRun <= MaxRuns
    /\ pc' = [pc EXCEPT ![p] = "check_repo"]
    /\ run' = [run EXCEPT ![p] = nextRun]
    /\ url' = [url EXCEPT ![p] = u]
    /\ nextRun' = nextRun + 1
    /\ texts' = [texts EXCEPT ![p] = <<>>]
    /\ resp' = [resp EXCEPT ![p] = NoResp]
    /\ tear' = [tear EXCEPT ![p] =
                   [startEmpty |-> ~disk[repo_path].exists /\ ~disk[db_path].exists,
                    startRO |-> \E i \in DOMAIN disk[repo_path].ents :
                                    disk[repo_path].ents[i].ro,
                    otherErr |-> FALSE, forced |-> FALSE, cloning |-> FALSE]]
    /\ UNCHANGED <<disk, hist, chatPre>>

\* Which directory a teardown position is about, and what follows it.
DirOf(l) == IF l \in {"check_repo", "rmtree_repo"} THEN repo_path ELSE db_path
AfterDirSkipDb(l) == "clone"
AfterDir(l) == IF l \in {"check_repo", "rmtree_repo"} THEN "check_db" ELSE "clone"

\* if os.path.exists(path):
analyze_check(p) ==
    /\ pc[p] \in {"check_repo", "check_db"}
    /\ pc' = [pc EXCEPT ![p] =
                 IF disk[DirOf(pc[p])].exists
                 THEN (IF pc[p] = "check_repo" THEN "rmtree_repo" ELSE "rmtree_db")
                 ELSE AfterDir(pc[p])]
    /\ UNCHANGED <<disk, run, url, texts, resp, nextRun, hist, tear, chatPre>>

\* shutil.rmtree(path, onerror=remove_readonly), one deletion at a time; an
\* exception leaves the handler through `except Exception` with a 500.
analyze_rmtree(p) ==
    /\ pc[p] \in {"rmtree_repo", "rmtree_db"}
    /\ \E fails \in BOOLEAN, retryFails \in BOOLEAN :
         LET d == DirOf(pc[p])
             r == rmtree_step(disk[d], fails, retryFails)
             forcedNow == ~r.raised /\ fails /\ disk[d].exists /\ disk[d].ents # <<>>
         IN
         /\ (fails \/ ~retryFails)
         /\ disk' = [disk EXCEPT ![d] = r.dir]
         /\ tear' = [tear EXCEPT ![p].otherErr = r.other,
                                 ![p].forced = @ \/ forcedNow]
         /\ IF r.raised
            THEN Respond(p, 500, "teardown", <<>>)
            ELSE /\ pc' = [pc EXCEPT ![p] = IF r.done THEN AfterDir(pc[p]) ELSE @]
                 /\ UNCHANGED <<resp, hist>>
    /\ UNCHANGED <<run, url, texts, nextRun, chatPre>>

\* What git.Repo.clone_from leaves in to_path: read-only objects under .git
\* and the working files.
ClonedEnts(r) == << [run |-> r, item |-> "obj", ro |-> TRUE],
                    [run |-> r, item |-> "src", ro |-> FALSE] >>

\* git.Repo.clone_from(repo_url.url, to_path=repo_path)
analyze_clone(p) ==
    /\ pc[p] = "clone"
    /\ \E ok \in BOOLEAN :
         IF ok /\ disk[repo_path].ents = <<>>
         THEN /\ disk' = [disk EXCEPT ![repo_path] =
                             [exists |-> TRUE, ents |-> ClonedEnts(run[p])]]
              /\ pc' = [pc EXCEPT ![p] = "load"]
              /\ tear' = [tear EXCEPT ![p].cloning = TRUE]
              /\ UNCHANGED <<resp, hist>>
         ELSE /\ Respond(p, 500, "clone", <<>>)
              /\ tear' = [tear EXCEPT ![p].cloning = TRUE]
              /\ UNCHANGED disk
    /\ UNCHANGED <<run, url, texts, nextRun, chatPre>>

\* The chunks of this run: texts = text_splitter.split_documents(all_docs),
\* empty when the working files are no longer there to be walked.
SplitDocuments(p) ==
    IF \E i \in DOMAIN disk[repo_path].ents :
           disk[repo_path].ents[i] = [run |-> run[p], item |-> "src", ro |-> FALSE]
    THEN [k \in 1..url[p] |-> [run |-> run[p], item |-> k, ro |-> FALSE]]
    ELSE <<>>

\* The os.walk loop and the splitter: neither lets an exception escape.
analyze_load(p) ==
    /\ pc[p] = "load"
    /\ texts' = [texts EXCEPT ![p] = SplitDocuments(p)]
    /\ pc' = [pc EXCEPT ![p] = "embed"]
    /\ UNCHANGED <<disk, run, url, resp, nextRun, hist, tear, chatPre>>

\* embeddings = HuggingFaceEmbeddings(model_name=...)
analyze_embed(p) ==
    /\ pc[p] = "embed"
    /\ \E ok \in BOOLEAN :
         IF ok
         THEN pc' = [pc EXCEPT ![p] = "build_open"] /\ UNCHANGED <<resp, hist>>
         ELSE Respond(p, 500, "embed", <<>>)
    /\ UNCHANGED <<disk, run, url, texts, nextRun, tear, chatPre>>

\* Chroma(persist_directory=...) creates the directory when it is missing and
\* attaches to what is there otherwise.
ChromaOpen(d) == [d EXCEPT !.exists = TRUE]

\* Chroma.from_documents, first half: the client and its directory.
analyze_build_open(p) ==
    /\ pc[p] = "build_open"
    /\ \E ok \in BOOLEAN :
         IF ok
         THEN /\ disk' = [disk EXCEPT ![db_path] = ChromaOpen(@)]
              /\ pc' = [pc EXCEPT ![p] = "build_add"]
              /\ UNCHANGED <<resp, hist>>
         ELSE Respond(p, 500, "build", <<>>) /\ UNCHANGED disk
    /\ UNCHANGED <<run, url, texts, nextRun, tear, chatPre>>

\* The collection after adding the first n of the chunks ts.
ChromaAdd(d, ts, n) == [d EXCEPT !.exists = TRUE, !.ents = @ \o SubSeq(ts, 1, n)]

\* Chroma.from_documents, second half: embed and persist the chunks; a
\* failure after n of them were written leaves them in the directory.
analyze_build_add(p) ==
    /\ pc[p] = "build_add"
    /\ \E n \in 0..Len(texts[p]), ok \in BOOLEAN :
         /\ ok => n = Len(texts[p])
         /\ disk' = [disk EXCEPT ![db_path] = ChromaAdd(@, texts[p], n)]
         /\ IF ok
            THEN /\ pc' = [pc EXCEPT ![p] = "idle"]
                 /\ resp' = [resp EXCEPT ![p] =
                                [status |-> 200, stage |-> "none", saw |-> <<>>]]
                 /\ hist' = [hist EXCEPT !.last = p, !.okRuns = @ \cup {run[p]},
                                         !.wrote = IF n > 0 THEN @ \cup {run[p]} ELSE @]
            ELSE /\ pc' = [pc EXCEPT ![p] = "idle"]
                 /\ resp' = [resp EXCEPT ![p] =
                                [status |-> 500, stage |-> "build", saw |-> <<>>]]
                 /\ hist' = [hist EXCEPT !.last = p,
                                         !.wrote = IF n > 0 THEN @ \cup {run[p]} ELSE @]
    /\ UNCHANGED <<run, url, texts, nextRun, tear, chatPre>>

\* POST /chat arrives.
ChatRequest(c) ==
    /\ pc[c] = "idle"
    /\ pc' = [pc EXCEPT ![c] = "gate"]
    /\ resp' = [resp EXCEPT ![c] = NoResp]
    /\ chatPre' = [chatPre EXCEPT ![c] = (hist.okRuns = {})]
    /\ UNCHANGED <<disk, run, url, texts, nextRun, hist, tear>>

\* if not os.path.exists(db_path): raise HTTPException(status_code=400, ...)
chat_gate(c) ==
    /\ pc[c] = "gate"
    /\ IF ~disk[db_path].exists
       THEN Respond(c, 400, "gate", <<>>)
       ELSE pc' = [pc EXCEPT ![c] = "open"] /\ UNCHANGED <<resp, hist>>
    /\ UNCHANGED <<disk, run, url, texts, nextRun, tear, chatPre>>

\* embeddings = HuggingFaceEmbeddings(...); db = Chroma(persist_directory=...)
chat_open(c) ==
    /\ pc[c] = "open"
    /\ \E ok \in BOOLEAN :
         IF ok
         THEN /\ disk' = [disk EXCEPT ![db_path] = ChromaOpen(@)]
              /\ pc' = [pc EXCEPT ![c] = "query"]
              /\ UNCHANGED <<resp, hist>>
         ELSE Respond(c, 500, "open", <<>>) /\ UNCHANGED disk
    /\ UNCHANGED <<run, url, texts, nextRun, tear, chatPre>>

\* db.as_retriever(search_kwargs={"k": 7}): at most K entries of the index.
Retrieve(d) == SubSeq(d.ents, 1, Min(K, Len(d.ents)))

\* qa_chain.invoke: retrieve, then the generative model, which may fail.
chat_query(c) ==
    /\ pc[c] = "query"
    /\ \E ok \in BOOLEAN :
         IF ok
         THEN Respond(c, 200, "answer", Retrieve(disk[db_path]))
         ELSE Respond(c, 500, "generate", <<>>)
    /\ UNCHANGED <<disk, run, url, texts, nextRun, tear, chatPre>>

SrvInit ==
    /\ disk = [d \in {repo_path, db_path} |-> NoDir]
    /\ pc = [p \in Procs |-> "idle"]
    /\ run = [p \in Analyzers |-> 0]
    /\ url = [p \in Analyzers |-> 0]
    /\ texts = [p \in Analyzers |-> <<>>]
    /\ resp = [p \in Procs |-> NoResp]
    /\ nextRun = 1
    /\ hist = [last |-> "none", okRuns |-> {}, wrote |-> {}]
    /\ tear = [p \in Analyzers |->
                  [startEmpty |-> TRUE, startRO |-> FALSE, otherErr |-> FALSE,
                   forced |-> FALSE, cloning |-> FALSE]]
    /\ chatPre = [c \in Chatters |-> TRUE]

\* The loader and the splitter at rest, for the specifications of the server.
LoadOff ==
    /\ tree = [dirs |-> {}, files |-> {}]
    /\ stack = <<>>
    /\ all_docs = <<>>
    /\ visited = {}
    /\ opened = {}

ChunkOff ==
    /\ text = <<>>
    /\ chunk_size = 0
    /\ chunk_overlap = 0
    /\ frames = <<>>
    /\ merge = [on |-> FALSE]
    /\ final_chunks = <<>>

Init == SrvInit /\ LoadOff /\ ChunkOff

\* A step of the server leaves the loader's and the splitter's variables alone.
Srv(A) == A /\ UNCHANGED <<loadVars, chunkVars>>

\* Requests are served by a pool of threads: handlers interleave freely.  Each
\* worker serves one analyze request; the chat worker any number of chats.
Next ==
    \/ \E p \in Analyzers, u \in Repos : Srv(run[p] = 0 /\ AnalyzeRequest(p, u))
    \/ \E p \in Analyzers : Srv(analyze_check(p))
    \/ \E p \in Analyzers : Srv(analyze_rmtree(p))
    \/ \E p \in Analyzers : Srv(analyze_clone(p))
    \/ \E p \in Analyzers : Srv(analyze_load(p))
    \/ \E p \in Analyzers : Srv(analyze_embed(p))
    \/ \E p \in Analyzers : Srv(analyze_build_open(p))
    \/ \E p \in Analyzers : Srv(analyze_build_add(p))
    \/ \E c \in Chatters : Srv(ChatRequest(c))
    \/ \E c \in Chatters : Srv(chat_gate(c))
    \/ \E c \in Chatters : Srv(chat_open(c))
    \/ \E c \in Chatters : Srv(chat_query(c))

Spec == Init /\ [][Next]_vars

\* One request at a time: a request arrives only when every handler is idle,
\* and one worker serves all the analyze requests.
SeqWorker == "a1"

SeqNext ==
    \/ \E u \in Repos : Srv(AllIdle /\ AnalyzeRequest(SeqWorker, u))
    \/ Srv(analyze_check(SeqWorker))
    \/ Srv(analyze_rmtree(SeqWorker))
    \/ Srv(analyze_clone(SeqWorker))
    \/ Srv(analyze_load(SeqWorker))
    \/ Srv(analyze_embed(SeqWorker))
    \/ Srv(analyze_build_open(SeqWorker))
    \/ Srv(analyze_build_add(SeqWorker))
    \/ \E c \in Chatters : Srv(AllIdle /\ ChatRequest(c))
    \/ \E c \in Chatters : Srv(chat_gate(c))
    \/ \E c \in Chatters : Srv(chat_open(c))
    \/ \E c \in Chatters : Srv(chat_query(c))

SeqSpec == Init /\ [][SeqNext]_vars

----------------------------------------------------------------------------
(* Properties of the request handlers *)

\* Positions of analyze_repo from the start of the teardown to the end of the
\* index build.
InAnalysis == {"check_repo", "rmtree_repo", "check_db", "rmtree_db", "clone",
               "load", "embed", "build_open", "build_add"}

\* Positions of analyze_repo from deleting the old index to the end of the build.
Rebuilding == {"rmtree_db", "clone", "load", "embed", "build_open", "build_add"}

\* C1: a chat issued when no analyze has completed successfully is answered
\* with the 400 of the gate: it never gets past the gate to open the index,
\* and never returns an answer or a 500.
C1_ChatBeforeSuccessRejected ==
    \A c \in Chatters :
        chatPre[c] => /\ pc[c] \notin {"open", "query"}
                      /\ resp[c].status \in {0, 400}

\* C2: once a sequentially executed analyze has returned success, the index
\* directory holds exactly the chunks of that run, each once, and no entry of
\* an earlier run.
C2_IndexHoldsOnlyLastRun ==
    \A p \in Analyzers :
        (pc[p] = "idle" /\ resp[p].status = 200) =>
            LET ents == disk[db_path].ents IN
            /\ disk[db_path].exists
            /\ \A i \in DOMAIN ents : ents[i].run = run[p]
            /\ \A i, j \in DOMAIN ents : ents[i] = ents[j] => i = j
            /\ {ents[i] : i \in DOMAIN ents} = {texts[p][k] : k \in DOMAIN texts[p]}
            /\ Len(texts[p]) = url[p]

\* C2 witness: a second analyze has succeeded with chunks of its own right
\* after a run that had written entries to the index.
C2_Witness ==
    \E p \in Analyzers :
        /\ pc[p] = "idle" /\ resp[p].status = 200
        /\ (run[p] - 1) \in hist.wrote
        /\ Len(texts[p]) > 0

\* C3: when analyze returns the error of a failed index build, no index
\* directory exists.
C3_FailedBuildLeavesNoIndex ==
    \A p \in Analyzers :
        (pc[p] = "idle" /\ resp[p].stage = "build") => ~disk[db_path].exists

\* C4: at most one analyze request is between the start of the workspace
\* teardown and the end of the index build.
C4_AnalyzeMutualExclusion ==
    Cardinality({p \in Analyzers : pc[p] \in InAnalysis}) <= 1

\* C5: a chat request takes no step that opens or queries the index while an
\* analyze is between deleting the old index and finishing the new build.
C5_ChatGatedUntilBuilt ==
    [][\A c \in Chatters :
          (pc[c] \in {"open", "query"} /\ pc'[c] # pc[c]) =>
              \A p \in Analyzers : pc[p] \notin Rebuilding]_vars

----------------------------------------------------------------------------
(* The document loader: the os.walk loop of analyze_repo *)

MaxDepth == 2
MaxDirs == 2
MaxFiles == 2

\* File names are sequences of characters, so that endswith is a suffix test.
allowed_extensions ==
    { <<".", "p", "y">>, <<".", "j", "s">>, <<".", "t", "s">>, <<".", "m", "d">>,
      <<".", "h", "t", "m", "l">>, <<".", "c", "s", "s">>,
      <<".", "j", "a", "v", "a">>, <<".", "c", "p", "p">> }
ignored_dirs == {".git", "node_modules", "__pycache__"}

\* The names a tree is drawn from, in the order a directory lists them.
DirNames == <<".git", "node_modules", "src">>
FileNames == << <<"a", ".", "p", "y">>, <<"a", ".", "p", "y", "c">>,
                <<"b", ".", "m", "d">> >>

Range(f) == {f[i] : i \in DOMAIN f}

RECURSIVE PathsUpTo(_)
PathsUpTo(n) ==
    IF n = 0 THEN {<<>>}
    ELSE LET shorter == PathsUpTo(n - 1) IN
         shorter \cup {Append(q, d) : q \in shorter, d \in Range(DirNames)}

\* The sets of at most k of the numbers 1..n.
RECURSIVE Combos(_, _)
Combos(n, k) ==
    IF k = 0 \/ n = 0 THEN {{}}
    ELSE Combos(n - 1, k) \cup {c \cup {n} : c \in Combos(n - 1, k - 1)}

RECURSIVE SetToSeq(_)
SetToSeq(S) ==
    IF S = {} THEN <<>>
    ELSE LET x == CHOOSE y \in S : TRUE IN <<x>> \o SetToSeq(S \ {x})

\* The sets of at most k elements of S.
SubsetsUpTo(S, k) ==
    LET q == SetToSeq(S) IN
    {{q[i] : i \in c} : c \in Combos(Len(q), k)}

Parent(q) == SubSeq(q, 1, Len(q) - 1)

\* The trees: sets of directories closed under parent (the root <<>> is
\* repo_path itself) and files in them, readable and decodable or not, no
\* two files of a directory under one name.
DirSets ==
    {D \in SubsetsUpTo(PathsUpTo(MaxDepth) \ {<<>>}, MaxDirs) :
        \A q \in D : Len(q) > 1 => Parent(q) \in D}

FileSets(D) ==
    {F \in SubsetsUpTo([dir : D \cup {<<>>}, name : Range(FileNames), ok : BOOLEAN],
                       MaxFiles) :
        \A f, g \in F : (f.dir = g.dir /\ f.name = g.name) => f = g}

\* file.endswith(ext)
endswith(name, ext) ==
    /\ Len(ext) <= Len(name)
    /\ SubSeq(name, Len(name) - Len(ext) + 1, Len(name)) = ext

\* any(file.endswith(ext) for ext in allowed_extensions)
any_endswith(name) == \E ext \in allowed_extensions : endswith(name, ext)

\* dirs[:] = [d for d in dirs if d not in ignored_dirs]
prune_nothing(dirs) == dirs
prune(dirs) == SelectSeq(dirs, LAMBDA d : d \notin ignored_dirs)

\* TextLoader(file_path, encoding='utf-8').load()
TextLoader_load(f) ==
    IF f.ok THEN [raised |-> FALSE, docs |-> << [dir |-> f.dir, name |-> f.name] >>]
    ELSE [raised |-> TRUE, docs |-> <<>>]

\* The body of `for file in files`: the extension test and the try/except.
load_file_abort(docs, f) ==
    IF any_endswith(f.name)
    THEN LET r == TextLoader_load(f) IN
         IF r.raised THEN <<>> ELSE docs \o r.docs
    ELSE docs
load_file(docs, f) ==
    IF any_endswith(f.name)
    THEN LET r == TextLoader_load(f) IN
         IF r.raised THEN docs ELSE docs \o r.docs
    ELSE docs

RECURSIVE load_files(_, _)
load_files(docs, fs) ==
    IF fs = <<>> THEN docs
    ELSE load_files(load_file(docs, Head(fs)), Tail(fs))

\* The (root, dirs, files) os.walk yields for directory top.
ListDirs(top) == SelectSeq(DirNames, LAMBDA d : Append(top, d) \in tree.dirs)
ListFiles(top) ==
    LET names == SelectSeq(FileNames,
                           LAMBDA n : \E f \in tree.files : f.dir = top /\ f.name = n)
    IN [i \in 1..Len(names) |->
           CHOOSE f \in tree.files : f.dir = top /\ f.name = names[i]]

\* One iteration of `for root, dirs, files in os.walk(repo_path)`: os.walk
\* pops a directory, yields it, the body prunes dirs and loads the files,
\* and os.walk pushes the directories left in dirs.
os_walk_step ==
    /\ stack # <<>>
    /\ LET top == Head(stack)
           dirs == prune(ListDirs(top))
           files == ListFiles(top)
       IN
       /\ visited' = visited \cup {top}
       /\ opened' = opened \cup {f \in Range(files) : any_endswith(f.name)}
       /\ all_docs' = load_files(all_docs, files)
       /\ stack' = [i \in 1..Len(dirs) |-> Append(top, dirs[i])] \o Tail(stack)
    /\ UNCHANGED <<tree, srvVars, chunkVars>>

LoadInit ==
    /\ \E D \in DirSets : \E F \in FileSets(D) : tree = [dirs |-> D, files |-> F]
    /\ stack = << <<>> >>
    /\ all_docs = <<>>
    /\ visited = {}
    /\ opened = {}
    /\ SrvInit
    /\ ChunkOff

LoadNext == os_walk_step

LoadSpec == LoadInit /\ [][LoadNext]_vars

\* A path has an ignored directory among its components.
UnderIgnored(q) == \E i \in DOMAIN q : q[i] \in ignored_dirs

\* The files the loader is to return.
Eligible(t) ==
    {f \in t.files : f.ok /\ any_endswith(f.name) /\ ~UnderIgnored(f.dir)}

\* C7: when the walk ends, all_docs holds one document for every file that
\* has an allowed extension, lies outside every ignored directory and can be
\* read, and nothing else, whatever unreadable files the tree holds.
C7_LoaderReturnsEligible ==
    stack = <<>> =>
        /\ Range(all_docs) = {[dir |-> f.dir, name |-> f.name] : f \in Eligible(tree)}
        /\ Len(all_docs) = Cardinality(Eligible(tree))

\* C7 witness: a finished walk that met an unreadable file of an allowed
\* extension outside the ignored directories and still loaded another file.
C7_Witness ==
    /\ stack = <<>>
    /\ \E f \in tree.files : ~f.ok /\ any_endswith(f.name) /\ ~UnderIgnored(f.dir)
    /\ Len(all_docs) >= 1

\* C8: the walk never schedules or visits a directory that is, or lies under,
\* an ignored directory, and opens no file under one.
C8_IgnoredNeverVisited ==
    /\ \A q \in visited \cup Range(stack) : ~UnderIgnored(q)
    /\ \A f \in opened : ~UnderIgnored(f.dir)

\* C8 witness: a finished walk that visited a directory below the root and
\* left alone the ignored directory inside it, which holds a readable file of
\* an allowed extension.
C8_Witness ==
    /\ stack = <<>>
    /\ \E f \in tree.files :
          /\ f.ok /\ any_endswith(f.name)
          /\ Len(f.dir) = 2 /\ f.dir[2] \in ignored_dirs
          /\ Parent(f.dir) \in visited
          /\ f.dir \notin visited /\ f \notin opened

----------------------------------------------------------------------------
(* The splitter: RecursiveCharacterTextSplitter.split_documents, one document *)

MaxDocLen == 5
MaxChunkSize == 3

\* The characters documents are made of, and the default separators of
\* RecursiveCharacterTextSplitter: "\n\n", "\n", " ", "".
Alphabet == {"a", " ", "\n"}
Whitespace == {" ", "\n"}
separators == << <<"\n", "\n">>, <<"\n">>, <<" ">>, <<>> >>

\* A string is the sequence of the positions of `text` its characters come
\* from; Chars gives its characters.
Chars(s) == [i \in 1..Len(s) |-> text[s[i]]]
Whole == [i \in 1..Len(text) |-> i]

\* "".join(docs)
RECURSIVE Concat(_)
Concat(ss) ==
    IF Len(ss) = 0 THEN <<>>
    ELSE IF Len(ss) = 1 THEN ss[1]
    ELSE LET h == Len(ss) \div 2 IN
         Concat(SubSeq(ss, 1, h)) \o Concat(SubSeq(ss, h + 1, Len(ss)))

\* text.strip(): the string from its first to its last character that is
\* not whitespace.
strip(s) ==
    IF \A i \in 1..Len(s) : text[s[i]] \in Whitespace THEN <<>>
    ELSE SubSeq(s,
                CHOOSE i \in 1..Len(s) :
                    /\ text[s[i]] \notin Whitespace
                    /\ \A j \in 1..(i - 1) : text[s[j]] \in Whitespace,
                CHOOSE i \in 1..Len(s) :
                    /\ text[s[i]] \notin Whitespace
                    /\ \A j \in (i + 1)..Len(s) : text[s[j]] \in Whitespace)

\* _join_docs(docs, separator) with the separator "" and strip_whitespace:
\* <<>> stands for None.  (The joined text is bound as a value before it is
\* stripped, so that it is computed once.)
join_docs(docs) == CHOOSE r \in {strip(joined) : joined \in {Concat(docs)}} : TRUE

\* The separator sep occurs in s at index i.
MatchAt(s, sep, i) ==
    /\ i + Len(sep) - 1 <= Len(s)
    /\ \A k \in 1..Len(sep) : text[s[i + k - 1]] = sep[k]

\* re.search(separator, text)
re_search(sep, s) == \E i \in 1..Len(s) : MatchAt(s, sep, i)

\* Where the run of the character c that holds index i begins.
RunStart(s, c, i) ==
    CHOOSE j \in 1..i : /\ \A k \in j..i : text[s[k]] = c
                        /\ (j = 1 \/ text[s[j - 1]] # c)

\* Where re.split finds sep, leftmost first and without overlap.  Every
\* separator is one character repeated, so inside a run of that character the
\* matches start at every Len(sep)-th index from the beginning of the run.
MatchStarts(s, sep) ==
    {i \in 1..Len(s) : /\ MatchAt(s, sep, i)
                       /\ (i - RunStart(s, sep[1], i)) % Len(sep) = 0}

\* _split_text_with_regex(text, separator, keep_separator=True): each separator
\* stays at the start of the piece that follows it; empty pieces are dropped.
split_text_with_regex(s, sep) ==
    IF sep = <<>> THEN [i \in 1..Len(s) |-> <<s[i]>>]
    ELSE LET B == (IF Len(s) > 0 THEN {1} ELSE {}) \cup MatchStarts(s, sep)
             begin == [k \in 1..Cardinality(B) |->
                          CHOOSE b \in B : Cardinality({c \in B : c < b}) = k - 1]
         IN [k \in 1..Cardinality(B) |->
                SubSeq(s, begin[k],
                       IF k = Cardinality(B) THEN Len(s) ELSE begin[k + 1] - 1)]

\* The head of _split_text(text, separators): the first separator that is ""
\* or occurs in the text, the separators left for the pieces too long, and
\* the splits.
first_separator(s, seps) ==
    CHOOSE j \in 1..Len(seps) :
        /\ seps[j] = <<>> \/ re_search(seps[j], s)
        /\ \A h \in 1..(j - 1) : seps[h] # <<>> /\ ~re_search(seps[h], s)

split_call(s, seps) ==
    CHOOSE frame \in
        { [splits |-> split_text_with_regex(s, sep),
           good_splits |-> <<>>,
           new_separators |-> IF sep = <<>> THEN <<>>
                              ELSE SubSeq(seps, i + 1, Len(seps))] :
             i \in {first_separator(s, seps)}, sep \in {seps[first_separator(s, seps)]} } :
        TRUE

NoMerge == [on |-> FALSE]
StartMerge(splits) ==
    [on |-> TRUE, splits |-> splits, current_doc |-> <<>>, total |-> 0,
     popping |-> FALSE]

\* How many splits at the head of `splits` are shorter than chunk_size.
ShortRun(splits) ==
    LET long == {i \in 1..Len(splits) : Len(splits[i]) >= chunk_size}
    IN IF long = {} THEN Len(splits)
       ELSE (CHOOSE i \in long : \A j \in long : i <= j) - 1

\* `for s in splits` in _split_text, up to the next split that is not short:
\* the short splits join _good_splits; a long one first flushes _good_splits
\* through _merge_splits and is then a chunk of its own or is split again with
\* the separators left.
split_loop ==
    /\ ~merge.on
    /\ frames # <<>>
    /\ Head(frames).splits # <<>>
    /\ LET top == Head(frames)
           s == Head(top.splits)
       IN
       IF Len(s) < chunk_size
       THEN /\ \E n \in {ShortRun(top.splits)} :
                 frames' = << [top EXCEPT
                                 !.splits = SubSeq(@, n + 1, Len(@)),
                                 !.good_splits = @ \o SubSeq(top.splits, 1, n)] >>
                           \o Tail(frames)
            /\ UNCHANGED <<merge, final_chunks>>
       ELSE IF top.good_splits # <<>>
       THEN /\ merge' = StartMerge(top.good_splits)
            /\ frames' = << [top EXCEPT !.good_splits = <<>>] >> \o Tail(frames)
            /\ UNCHANGED final_chunks
       ELSE IF top.new_separators = <<>>
       THEN /\ final_chunks' = Append(final_chunks, s)
            /\ frames' = << [top EXCEPT !.splits = Tail(@)] >> \o Tail(frames)
            /\ UNCHANGED merge
       ELSE /\ frames' = << split_call(s, top.new_separators),
                            [top EXCEPT !.splits = Tail(@)] >> \o Tail(frames)
            /\ UNCHANGED <<merge, final_chunks>>
    /\ UNCHANGED <<text, chunk_size, chunk_overlap, srvVars, loadVars>>

\* The end of _split_text: the last _good_splits are merged, then it returns.
split_return ==
    /\ ~merge.on
    /\ frames # <<>>
    /\ Head(frames).splits = <<>>
    /\ IF Head(frames).good_splits # <<>>
       THEN /\ merge' = StartMerge(Head(frames).good_splits)
            /\ frames' = << [Head(frames) EXCEPT !.good_splits = <<>>] >> \o Tail(frames)
       ELSE /\ frames' = Tail(frames)
            /\ UNCHANGED merge
    /\ UNCHANGED <<final_chunks, text, chunk_size, chunk_overlap, srvVars, loadVars>>

\* final_chunks after _merge_splits adds the joined current_doc, if any.
Emit(chunks, current_doc) ==
    CHOOSE r \in {IF doc = <<>> THEN chunks ELSE Append(chunks, doc) :
                     doc \in {join_docs(current_doc)}} : TRUE

\* total + _len + (separator_len if len(current_doc) > 0 else 0) > chunk_size
Overflows(total, len) == total + len > chunk_size

\* The condition of the while loop of _merge_splits.
keep_popping_all(total, len) == total > 0
keep_popping_never(total, len) == FALSE
keep_popping(total, len) ==
    total > chunk_overlap \/ (Overflows(total, len) /\ total > 0)

\* The lengths of the strings of a list, and their running totals.
Lens(ss) == [i \in 1..Len(ss) |-> Len(ss[i])]

RECURSIVE Cumulative(_)
Cumulative(lens) ==
    IF Len(lens) <= 1 THEN lens
    ELSE CHOOSE r \in
           { l \o [k \in 1..Len(rr) |-> l[Len(l)] + rr[k]] :
               l \in {Cumulative(SubSeq(lens, 1, Len(lens) \div 2))},
               rr \in {Cumulative(SubSeq(lens, Len(lens) \div 2 + 1, Len(lens)))} } :
           TRUE

\* The total length of the first k strings, from the running totals.
Upto(cum, k) == IF k = 0 THEN 0 ELSE cum[k]

\* How many splits `for d in splits` appends to current_doc before one
\* overflows: cum are the running totals of the lengths of the splits left,
\* have is len(current_doc).
AppendRun(cum, total, have) ==
    LET stop == {i \in 1..Len(cum) :
                    /\ Overflows(total + Upto(cum, i - 1),
                                 cum[i] - Upto(cum, i - 1))
                    /\ have + i - 1 > 0}
    IN IF stop = {} THEN Len(cum)
       ELSE (CHOOSE i \in stop : \A j \in stop : i <= j) - 1

\* How many strings the while loop pops off the front of current_doc: cum are
\* the running totals of the lengths of current_doc, len is the length of the
\* split about to be added.
PopRun(cum, total, len) ==
    LET enough == {k \in 0..Len(cum) : ~keep_popping(total - Upto(cum, k), len)}
    IN CHOOSE k \in enough : \A j \in enough : k <= j

\* `for d in splits` in _merge_splits up to the while loop: the splits that
\* fit are appended to current_doc; at the one that overflows, current_doc is
\* joined into a chunk.
merge_iter ==
    /\ merge.on /\ ~merge.popping
    /\ merge.splits # <<>>
    /\ IF /\ Overflows(merge.total, Len(Head(merge.splits)))
          /\ Len(merge.current_doc) > 0
       THEN /\ final_chunks' = Emit(final_chunks, merge.current_doc)
            /\ merge' = [merge EXCEPT !.popping = TRUE]
       ELSE /\ \E cum \in {Cumulative(Lens(merge.splits))} :
                 \E n \in {AppendRun(cum, merge.total, Len(merge.current_doc))} :
                    merge' = [merge EXCEPT
                                !.current_doc = @ \o SubSeq(merge.splits, 1, n),
                                !.total = @ + cum[n],
                                !.splits = SubSeq(@, n + 1, Len(@))]
            /\ UNCHANGED final_chunks
    /\ UNCHANGED <<frames, text, chunk_size, chunk_overlap, srvVars, loadVars>>

\* The while loop of _merge_splits, which pops strings off the front of
\* current_doc, and after it current_doc.append(d).
merge_pop ==
    /\ merge.on /\ merge.popping
    /\ \E d \in {Head(merge.splits)} :
         \E cum \in {Cumulative(Lens(merge.current_doc))} :
           \E k \in {PopRun(cum, merge.total, Len(d))} :
              merge' = [merge EXCEPT
                          !.current_doc = Append(SubSeq(@, k + 1, Len(@)), d),
                          !.total = @ - Upto(cum, k) + Len(d),
                          !.splits = Tail(@),
                          !.popping = FALSE]
    /\ UNCHANGED <<final_chunks, frames, text, chunk_size, chunk_overlap,
                   srvVars, loadVars>>

\* The end of _merge_splits: what is left in current_doc is the last chunk.
merge_finish ==
    /\ merge.on /\ ~merge.popping
    /\ merge.splits = <<>>
    /\ final_chunks' = Emit(final_chunks, merge.current_doc)
    /\ merge' = NoMerge
    /\ UNCHANGED <<frames, text, chunk_size, chunk_overlap, srvVars, loadVars>>

SplitNext == split_loop \/ split_return \/ merge_iter \/ merge_pop \/ merge_finish

RECURSIVE Docs(_)
Docs(n) ==
    IF n = 0 THEN {<<>>}
    ELSE LET shorter == Docs(n - 1) IN
         shorter \cup {Append(t, c) : t \in {u \in shorter : Len(u) = n - 1},
                                      c \in Alphabet}

\* split_text(text) starts with the call _split_text(text, separators).
SplitStart ==
    /\ \E whole \in {Whole} : frames = << split_call(whole, separators) >>
    /\ merge = NoMerge
    /\ final_chunks = <<>>
    /\ SrvInit
    /\ LoadOff

\* Every document up to MaxDocLen characters under every chunk_size up to
\* MaxChunkSize and every smaller chunk_overlap.
SplitInit ==
    /\ text \in Docs(MaxDocLen)
    /\ chunk_size \in 1..MaxChunkSize
    /\ chunk_overlap \in 0..(chunk_size - 1)
    /\ SplitStart

SplitSpec == SplitInit /\ [][SplitNext]_vars

\* The splitter as analyze_repo builds it, chunk_size=1000 and
\* chunk_overlap=200, on documents of 2300 characters: one without any
\* separator, and those with a single space at a multiple of 200.
Split2300Init ==
    /\ text \in { [i \in 1..2300 |-> "a"] }
                \cup { [i \in 1..2300 |-> IF i = 200 * k THEN " " ELSE "a"] :
                         k \in 1..11 }
    /\ chunk_size = 1000
    /\ chunk_overlap = 200
    /\ SplitStart

Split2300Spec == Split2300Init /\ [][SplitNext]_vars

SplitDone == frames = <<>> /\ ~merge.on

----------------------------------------------------------------------------
(* Properties of the splitter *)

\* Where a chunk starts in the document (0-based) and how long it is.
Offset(c) == c[1] - 1
Offsets == [i \in 1..Len(final_chunks) |-> Offset(final_chunks[i])]
Lengths == [i \in 1..Len(final_chunks) |-> Len(final_chunks[i])]

\* The document holds none of the separators " ", "\n" the splitter cuts at.
NoSeparator == \A i \in 1..Len(text) : text[i] \notin Whitespace

Shared(i) ==
    IF i = 1 THEN {}
    ELSE {p \in Range(final_chunks[i]) : p \in Range(final_chunks[i - 1])}
DropShared(i) ==
    SubSeq(final_chunks[i], Cardinality(Shared(i)) + 1, Len(final_chunks[i]))

\* The positions of the document some chunk holds.
Covered == UNION {Range(final_chunks[i]) : i \in 1..Len(final_chunks)}

\* C10 as stated: the chunks, each without what it shares with its
\* predecessor, concatenate to the whole document; at most chunk_overlap
\* characters are shared at a boundary; an empty document yields no chunk and
\* a document shorter than chunk_size exactly one chunk, the whole content.
C10_NeverLosesCharactersAsStated ==
    SplitDone =>
        /\ Concat([i \in 1..Len(final_chunks) |-> DropShared(i)]) = Whole
        /\ \A i \in 1..Len(final_chunks) : Cardinality(Shared(i)) <= chunk_overlap
        /\ (Len(text) = 0 => final_chunks = <<>>)
        /\ (Len(text) > 0 /\ Len(text) < chunk_size => final_chunks = <<Whole>>)

\* C10 amended: every chunk is a non-empty run of consecutive characters of
\* the document, a later chunk starts and ends no earlier than the chunk before
\* it, every character that is not whitespace is in some chunk, at most
\* chunk_overlap characters are shared at a boundary; an empty document yields
\* no chunk and a document shorter than chunk_size yields its content stripped
\* of whitespace at both ends as the one chunk, or no chunk if nothing is left.
C10_NeverLosesCharacters ==
    SplitDone =>
        /\ \A i \in 1..Len(final_chunks) :
              LET c == final_chunks[i] IN
              /\ c # <<>>
              /\ c = [k \in 1..Len(c) |-> c[1] + k - 1]
        /\ \A i \in 2..Len(final_chunks) :
              /\ final_chunks[i - 1][1] <= final_chunks[i][1]
              /\ final_chunks[i - 1][Len(final_chunks[i - 1])]
                    <= final_chunks[i][Len(final_chunks[i])]
              /\ Cardinality(Shared(i)) <= chunk_overlap
        /\ \A p \in 1..Len(text) : p \notin Covered => text[p] \in Whitespace
        /\ (Len(text) = 0 => final_chunks = <<>>)
        /\ (Len(text) < chunk_size =>
               final_chunks = IF strip(Whole) = <<>> THEN <<>>
                              ELSE <<strip(Whole)>>)

\* C10 witness: the splitter has finished a document it cut into chunks that
\* share characters, and dropped whitespace of.
C10_Witness ==
    /\ SplitDone
    /\ \E i \in 2..Len(final_chunks) : Shared(i) # {}
    /\ \E p \in 1..Len(text) : p \notin Covered

====
